---------------------------- MODULE Spec2Model ----------------------------
(***************************************************************************)
(* A model of the TTS text sanitizer plugin (src/main.py).                 *)
(*                                                                         *)
(* A text is a sequence of characters; a character is a one-token string   *)
(* ("a", "6", "(", " ", ...).  Characters outside ASCII are written by     *)
(* name: "ha" "li" "hai" "hen" "bang" "wu" are the CJK characters of the   *)
(* default replacements, "fw(" "fw)" "fw^" "fw_" ... the full-width forms, *)
(* "star" "heart" "note" "rarr" "larr" the decorative symbols, "NL" and    *)
(* "TAB" the newline and the tab.                                          *)
(*                                                                         *)
(* A regular expression is a sequence of elements, each a character class  *)
(* (set, possibly negated) matched once or, with star, any number of times *)
(* greedily with backtracking, which is the shape of every built-in        *)
(* pattern.  A pattern string that re.compile rejects has ok = FALSE.      *)
(***************************************************************************)
EXTENDS Integers, Sequences, FiniteSets, TLC

VARIABLES config,          \* self.config
          emoticon_regex,  \* self.emoticon_regex
          special_regex,   \* self.special_regex
          repeat_regex,    \* self.repeat_regex
          replacements,    \* self.replacements
          arg,             \* the text handed to the plugin by the host
          ret,             \* what the plugin's last call returned or left behind
          last,            \* the operation that ran last
          changes          \* configuration edits made by the host so far

vars == <<config, emoticon_regex, special_regex, repeat_regex, replacements,
          arg, ret, last, changes>>

---------------------------------------------------------------------------
(* Bounds of the model. *)

MaxChanges == 2

MaxLen == 3

MaxRun == 50

MaxCount == 3

---------------------------------------------------------------------------
(* Characters. *)

Whitespace == {" ", "TAB", "NL"}

Cls(S) == [set |-> S, neg |-> FALSE, star |-> FALSE]

NotCls(S) == [set |-> S, neg |-> TRUE, star |-> FALSE]

Star(e) == [e EXCEPT !.star = TRUE]

Pattern(elems) == [ok |-> TRUE, elems |-> elems]

InvalidPattern == [ok |-> FALSE, elems |-> <<>>]

Face(eye) == Pattern(<<Cls(eye), Cls({"fw_", "_"}), Cls(eye)>>)

EMOTICON_PATTERNS ==
    << Pattern(<<Cls({"fw(", "("}), Star(NotCls({"fw(", "(", ")"})),
                 Cls({"fw)", ")"})>>),
       Face({"fw>", ">"}) ,
       Face({"fw^", "^"}),
       Face({"o", "O"}),
       Face({"x", "X"}),
       Face({"fw-", "-"}),
       Pattern(<<Cls({"fw(", "("}), Cls({"fw;", ";"}), Cls({"fw_", "_"}),
                 Cls({"fw;", ";"}), Cls({"fw)", ")"})>>) >>

SPECIAL_CHAR_PATTERNS ==
    << Pattern(<<Cls({"star", "note", "heart"})>>),
       Pattern(<<Cls({"rarr", "larr"})>>) >>

FILTER_WORDS ==
    << <<"o","r","z">>, <<"O","T","Z">>, <<"Q","A","Q">>,
       <<"Q","W","Q">>, <<"T","A","T">>, <<"T","U","T">> >>

DEFAULT_REPLACEMENTS ==
    << <<"2","3","3","|","ha","ha","ha">>, <<"6","6","6","|","li","hai">>,
       <<"9","9","9","|","hen","bang">>, <<"6","|","li","hai">>,
       <<"5","5","5","|","wu","wu","wu">> >>

get_default_config ==
    [ enabled               |-> TRUE,
      max_length            |-> 200,
      max_processing_length |-> 10000,
      emoticon_patterns     |-> EMOTICON_PATTERNS,
      filter_words          |-> FILTER_WORDS,
      replacement_words     |-> DEFAULT_REPLACEMENTS,
      filter_special_chars  |-> TRUE,
      special_char_patterns |-> SPECIAL_CHAR_PATTERNS,
      filter_repeats        |-> TRUE,
      max_repeat_count      |-> 2 ]

---------------------------------------------------------------------------
(* The string and regular-expression primitives of Python the code uses. *)

InClass(e, c) == IF e.neg THEN c \notin e.set ELSE c \in e.set

\* The number of consecutive characters of s from position i that e accepts.
RECURSIVE ClassRun(_, _, _)
ClassRun(e, s, i) ==
    IF i <= Len(s) /\ InClass(e, s[i]) THEN 1 + ClassRun(e, s, i + 1) ELSE 0

\* re's backtracking match of elements j.. of p at position i of s: the
\* position after the match, or -1.  A starred element takes the longest
\* run first and gives characters back (n counts down) until the rest fits.
RECURSIVE MatchFrom(_, _, _, _)
RECURSIVE MatchStar(_, _, _, _, _)
MatchFrom(p, j, s, i) ==
    IF j > Len(p) THEN i
    ELSE IF p[j].star THEN MatchStar(p, j, s, i, ClassRun(p[j], s, i))
    ELSE IF i <= Len(s) /\ InClass(p[j], s[i]) THEN MatchFrom(p, j + 1, s, i + 1)
    ELSE -1

MatchStar(p, j, s, i, n) ==
    LET e == MatchFrom(p, j + 1, s, i + n)
    IN  IF e # -1 THEN e
        ELSE IF n = 0 THEN -1
        ELSE MatchStar(p, j, s, i, n - 1)

\* regex.sub("", s): every leftmost non-overlapping match removed.
RECURSIVE SubFrom(_, _, _)
SubFrom(p, s, i) ==
    IF i > Len(s) THEN <<>>
    ELSE LET e == MatchFrom(p, 1, s, i)
         IN  IF e = -1 \/ e = i THEN <<s[i]>> \o SubFrom(p, s, i + 1)
             ELSE SubFrom(p, s, e)

re_sub_empty(p, s) == SubFrom(p, s, 1)

\* s.replace(old, new)
RECURSIVE ReplaceFrom(_, _, _, _)
ReplaceFrom(s, old, new, i) ==
    IF i > Len(s) THEN IF old = <<>> THEN new ELSE <<>>
    ELSE IF old = <<>> THEN new \o <<s[i]>> \o ReplaceFrom(s, old, new, i + 1)
    ELSE IF /\ i + Len(old) - 1 <= Len(s)
            /\ \A j \in 1..Len(old) : s[i + j - 1] = old[j]
         THEN new \o ReplaceFrom(s, old, new, i + Len(old))
    ELSE <<s[i]>> \o ReplaceFrom(s, old, new, i + 1)

str_replace(s, old, new) == ReplaceFrom(s, old, new, 1)

\* The number of consecutive copies of s[i] from position i.
RECURSIVE RunLen(_, _)
RunLen(s, i) ==
    IF i < Len(s) /\ s[i + 1] = s[i] THEN 1 + RunLen(s, i + 1) ELSE 1

RECURSIVE Copies(_, _)
Copies(c, n) == IF n <= 0 THEN <<>> ELSE <<c>> \o Copies(c, n - 1)

\* re.compile("(.)\\1{min,}").sub(lambda m: m.group(1) * count, s): "." does
\* not match the newline; a match is the whole run, of min + 1 or more.
RECURSIVE RepeatFrom(_, _, _, _)
RepeatFrom(s, min, count, i) ==
    IF i > Len(s) THEN <<>>
    ELSE LET r == RunLen(s, i)
         IN  IF s[i] # "NL" /\ r >= min + 1
             THEN Copies(s[i], count) \o RepeatFrom(s, min, count, i + r)
             ELSE <<s[i]>> \o RepeatFrom(s, min, count, i + 1)

\* The pattern written with one repetition too many, "(.)\\1{min+1,}".
repeat_sub_longer_runs(s, min, count) == RepeatFrom(s, min + 1, count, 1)

repeat_sub(s, min, count) == RepeatFrom(s, min, count, 1)

\* s.strip()
RECURSIVE LStrip(_)
LStrip(s) == IF s # <<>> /\ Head(s) \in Whitespace THEN LStrip(Tail(s)) ELSE s

RECURSIVE RStrip(_)
RStrip(s) ==
    IF s # <<>> /\ s[Len(s)] \in Whitespace
    THEN RStrip(SubSeq(s, 1, Len(s) - 1)) ELSE s

strip(s) == RStrip(LStrip(s))

\* re.sub(r"\s+", " ", s)
RECURSIVE SpacesFrom(_, _)
SpacesFrom(s, i) ==
    IF i > Len(s) THEN <<>>
    ELSE IF s[i] \in Whitespace
         THEN IF i > 1 /\ s[i - 1] \in Whitespace THEN SpacesFrom(s, i + 1)
              ELSE <<" ">> \o SpacesFrom(s, i + 1)
    ELSE <<s[i]>> \o SpacesFrom(s, i + 1)

collapse_spaces(s) == SpacesFrom(s, 1)

---------------------------------------------------------------------------
(* Rule compilation. *)

NoRegex == [some |-> FALSE, min |-> 0]

RepeatRegex(count) == [some |-> TRUE, min |-> count]

\* The index of the first c in s, or 0.
RECURSIVE IndexOf(_, _, _)
IndexOf(s, c, i) ==
    IF i > Len(s) THEN 0 ELSE IF s[i] = c THEN i ELSE IndexOf(s, c, i + 1)

\* d[k] = v on an insertion-ordered dict, kept as a sequence of <<k, v>>.
RECURSIVE dict_set(_, _, _)
dict_set(d, k, v) ==
    IF d = <<>> THEN << <<k, v>> >>
    ELSE IF Head(d)[1] = k THEN << <<k, v>> >> \o Tail(d)
    ELSE <<Head(d)>> \o dict_set(Tail(d), k, v)

RECURSIVE ParseFrom(_, _, _)
ParseFrom(list, i, d) ==
    IF i > Len(list) THEN d
    ELSE LET item == list[i]
             bar == IndexOf(item, "|", 1)
             original == strip(SubSeq(item, 1, bar - 1))
             replacement == strip(SubSeq(item, bar + 1, Len(item)))
         IN  IF bar # 0 /\ original # <<>> /\ replacement # <<>>
             THEN ParseFrom(list, i + 1, dict_set(d, original, replacement))
             ELSE ParseFrom(list, i + 1, d)

parse_replacements(cfg) == ParseFrom(cfg.replacement_words, 1, <<>>)

\* [re.compile(p) for p in patterns] raises re.error on the first bad pattern.
CompileRaises(patterns) == \E i \in 1..Len(patterns) : ~patterns[i].ok

CompileAll(patterns) == [i \in 1..Len(patterns) |-> patterns[i].elems]

EmptyRules ==
    [emoticon_regex |-> <<>>, special_regex |-> <<>>,
     repeat_regex |-> NoRegex, replacements |-> <<>>]

\* Whether the try block of _compile_patterns raises for configuration cfg.
compile_fails(cfg) ==
    \/ CompileRaises(cfg.emoticon_patterns)
    \/ (cfg.filter_special_chars /\ CompileRaises(cfg.special_char_patterns))

\* _compile_patterns with an except branch that forgets self.emoticon_regex:
\* a list already compiled when a later step raises stays in place.
compile_patterns_keeps_emoticons(cfg) ==
    IF compile_fails(cfg)
    THEN [EmptyRules EXCEPT !.emoticon_regex =
            IF CompileRaises(cfg.emoticon_patterns) THEN <<>>
            ELSE CompileAll(cfg.emoticon_patterns)]
    ELSE [emoticon_regex |-> CompileAll(cfg.emoticon_patterns),
          special_regex  |-> IF cfg.filter_special_chars
                             THEN CompileAll(cfg.special_char_patterns)
                             ELSE <<>>,
          repeat_regex   |-> IF cfg.filter_repeats
                             THEN RepeatRegex(cfg.max_repeat_count)
                             ELSE NoRegex,
          replacements   |-> parse_replacements(cfg)]

\* The four attributes _compile_patterns leaves behind for configuration cfg.
compile_patterns(cfg) ==
    IF compile_fails(cfg)
    THEN EmptyRules
    ELSE [emoticon_regex |-> CompileAll(cfg.emoticon_patterns),
          special_regex  |-> IF cfg.filter_special_chars
                             THEN CompileAll(cfg.special_char_patterns)
                             ELSE <<>>,
          repeat_regex   |-> IF cfg.filter_repeats
                             THEN RepeatRegex(cfg.max_repeat_count)
                             ELSE NoRegex,
          replacements   |-> parse_replacements(cfg)]

rules ==
    [emoticon_regex |-> emoticon_regex, special_regex |-> special_regex,
     repeat_regex |-> repeat_regex, replacements |-> replacements]

---------------------------------------------------------------------------
(* The sanitization pipeline and the playback gate. *)

RECURSIVE SubAll(_, _, _)
SubAll(regexes, i, text) ==
    IF i > Len(regexes) THEN text
    ELSE SubAll(regexes, i + 1, re_sub_empty(regexes[i], text))

RECURSIVE RemoveWords(_, _, _)
RemoveWords(words, i, text) ==
    IF i > Len(words) THEN text
    ELSE RemoveWords(words, i + 1, str_replace(text, words[i], <<>>))

RECURSIVE ReplaceWords(_, _, _)
ReplaceWords(d, i, text) ==
    IF i > Len(d) THEN text
    ELSE ReplaceWords(d, i + 1, str_replace(text, d[i][1], d[i][2]))

CollapseRepeats(cfg, R, text) ==
    IF R.repeat_regex.some
    THEN repeat_sub(text, R.repeat_regex.min, cfg.max_repeat_count)
    ELSE text

\* The guard without its emptiness test.
filter_guard_length_only(cfg, text) == Len(text) > cfg.max_processing_length

\* "if not text or len(text) > max_processing_length"
filter_guard(cfg, text) ==
    text = <<>> \/ Len(text) > cfg.max_processing_length

\* filter_text with configuration cfg and compiled attributes R: the text it
\* returns and the number of passes it applied.
filter_run(cfg, R, text) ==
    IF filter_guard(cfg, text)
    THEN [out |-> <<>>, passes |-> 0]
    ELSE LET t1 == SubAll(R.emoticon_regex, 1, text)
             t2 == RemoveWords(cfg.filter_words, 1, t1)
             t3 == ReplaceWords(R.replacements, 1, t2)
             t4 == SubAll(R.special_regex, 1, t3)
             t5 == CollapseRepeats(cfg, R, t4)
         IN  [out |-> strip(collapse_spaces(t5)), passes |-> 6]

filter_text(text) == filter_run(config, rules, text).out

\* The gate without its "max_len > 0" test.
should_skip_zero_is_a_limit(cfg, text) ==
    strip(text) = <<>> \/ Len(text) > cfg.max_length

should_skip(cfg, text) ==
    strip(text) = <<>> \/ (cfg.max_length > 0 /\ Len(text) > cfg.max_length)

should_skip_tts(text) == should_skip(config, text)

---------------------------------------------------------------------------
(* The event handler. *)

Plain(text) == [type |-> "Plain", text |-> text]

Image == [type |-> "Image", text |-> <<>>]

\* The loop over result.chain: the copy built for TTS, whether any text was
\* changed, and whether a component made the handler return early.
RECURSIVE BuildChain(_, _, _)
BuildChain(chain, i, acc) ==
    IF i > Len(chain) THEN acc
    ELSE LET comp == chain[i]
             filtered_text == filter_text(comp.text)
         IN  IF comp.type = "Plain" /\ comp.text # <<>>
             THEN IF should_skip_tts(filtered_text)
                  THEN [acc EXCEPT !.skip = TRUE]
                  ELSE BuildChain(chain, i + 1,
                         [acc EXCEPT
                            !.tts_chain = Append(@, Plain(filtered_text)),
                            !.has_filtered_content =
                                @ \/ filtered_text # comp.text])
             ELSE BuildChain(chain, i + 1,
                    [acc EXCEPT !.tts_chain = Append(@, comp)])

\* What filter_for_tts_only leaves behind for event ev: result.chain after
\* the call, the chain stored for the TTS consumer, and the path taken.
handle_event(ev) ==
    LET same(path) == [before |-> ev.chain, after |-> ev.chain,
                       stored |-> <<>>, path |-> path]
        b == BuildChain(ev.chain, 1,
               [tts_chain |-> <<>>, has_filtered_content |-> FALSE,
                skip |-> FALSE])
    IN  IF ~config.enabled THEN same("disabled")
        ELSE IF ~ev.has_result \/ ev.chain = <<>> THEN same("empty")
        ELSE IF b.skip THEN same("skip")
        ELSE IF ~(b.has_filtered_content /\ b.tts_chain # <<>>)
             THEN same("unchanged")
        ELSE IF ev.storage # "none" /\ ~ev.raises
             THEN [same("stored") EXCEPT !.stored = b.tts_chain]
        ELSE [same("fallback") EXCEPT !.after = b.tts_chain]

---------------------------------------------------------------------------
(* Inputs. *)

\* Sequences over S of length at most n.
RECURSIVE SeqsUpTo(_, _)
SeqsUpTo(S, n) ==
    IF n = 0 THEN {<<>>}
    ELSE LET shorter == SeqsUpTo(S, n - 1)
         IN  shorter \cup {Append(s, c) : s \in shorter, c \in S}

Texts ==
    { <<>>, <<" ">>, <<"a">>, <<"a", "b">>, <<"a", " ", " ", "b">>,
      <<"o", "r", "z">>, <<"a", "star">>, <<"(", "^", "_", "^", ")", "a">>,
      <<"6", "6", "6">>, <<"2", "3", "3", "6", "6", "6">>,
      <<"a", "a", "a", "a">>, <<"a", "a", "a">> }

Events(text) ==
    { [has_result |-> FALSE, chain |-> <<>>, storage |-> "none",
       raises |-> FALSE] }
    \cup
    { [has_result |-> TRUE, chain |-> c, storage |-> s, raises |-> r] :
        c \in { <<>>, <<Plain(text)>>, <<Image, Plain(text)>> },
        s \in {"set_metadata", "context", "none"},
        r \in BOOLEAN }

\* The configurations one edit away from cfg.
ConfigEdits(cfg) ==
    {[cfg EXCEPT !.enabled = b] : b \in BOOLEAN}
    \cup {[cfg EXCEPT !.max_length = n] : n \in {200, 2}}
    \cup {[cfg EXCEPT !.max_processing_length = n] : n \in {10000, 2}}
    \cup {[cfg EXCEPT !.emoticon_patterns = ps] :
            ps \in {EMOTICON_PATTERNS, Append(EMOTICON_PATTERNS, InvalidPattern)}}
    \cup {[cfg EXCEPT !.filter_words = ws] : ws \in {FILTER_WORDS, <<>>}}
    \cup {[cfg EXCEPT !.filter_special_chars = b] : b \in BOOLEAN}
    \cup {[cfg EXCEPT !.filter_repeats = b] : b \in BOOLEAN}
    \cup {[cfg EXCEPT !.max_repeat_count = n] : n \in 1..MaxCount}

---------------------------------------------------------------------------
(* The plugin as a state machine.  Every handler runs to completion without *)
(* awaiting, so each is one step.                                           *)

Holds(R) ==
    /\ emoticon_regex = R.emoticon_regex
    /\ special_regex = R.special_regex
    /\ repeat_regex = R.repeat_regex
    /\ replacements = R.replacements

Compiled(R) ==
    /\ emoticon_regex' = R.emoticon_regex
    /\ special_regex' = R.special_regex
    /\ repeat_regex' = R.repeat_regex
    /\ replacements' = R.replacements

\* __init__ with the default configuration, for a host that will hand over
\* one of Texts.
Init ==
    /\ config = get_default_config
    /\ Holds(compile_patterns(config))
    /\ arg \in Texts
    /\ ret = [op |-> "init"]
    /\ last = "init"
    /\ changes = 0

\* The host edits the configuration object the plugin holds.
set_config ==
    /\ changes < MaxChanges
    /\ \E cfg \in ConfigEdits(config) : cfg # config /\ config' = cfg
    /\ changes' = changes + 1
    /\ last' = "set_config"
    /\ UNCHANGED <<emoticon_regex, special_regex, repeat_regex, replacements,
                   arg, ret>>

\* Whether _compile_patterns lets an exception out: its try block spans the
\* whole body and its handler catches every Exception.
compile_escapes(cfg) == FALSE

reload_config ==
    /\ Compiled(compile_patterns(config))
    /\ ret' = [op |-> "reload",
               reply |-> IF compile_escapes(config) THEN "failed" ELSE "ok"]
    /\ last' = "reload_config"
    /\ UNCHANGED <<config, arg, changes>>

filter_call ==
    /\ LET r == filter_run(config, rules, arg)
       IN  ret' = [op |-> "filter", text |-> arg, out |-> r.out,
                   passes |-> r.passes, matcher |-> repeat_regex,
                   count |-> config.max_repeat_count]
    /\ last' = "filter_text"
    /\ UNCHANGED <<config, emoticon_regex, special_regex, repeat_regex,
                   replacements, arg, changes>>

skip_call ==
    /\ ret' = [op |-> "skip", text |-> arg, skip |-> should_skip_tts(arg)]
    /\ last' = "should_skip_tts"
    /\ UNCHANGED <<config, emoticon_regex, special_regex, repeat_regex,
                   replacements, arg, changes>>

filter_for_tts_only ==
    /\ \E ev \in Events(arg) :
         ret' = [op |-> "handler"] @@ handle_event(ev)
    /\ last' = "filter_for_tts_only"
    /\ UNCHANGED <<config, emoticon_regex, special_regex, repeat_regex,
                   replacements, arg, changes>>

test_filter ==
    /\ LET user_input == strip(arg)
           filtered == filter_text(user_input)
       IN  ret' = IF user_input = <<>>
                  THEN [op |-> "test_filter", usage |-> TRUE]
                  ELSE [op |-> "test_filter", usage |-> FALSE,
                        filtered |-> filtered,
                        skip |-> should_skip_tts(filtered)]
    /\ last' = "test_filter"
    /\ UNCHANGED <<config, emoticon_regex, special_regex, repeat_regex,
                   replacements, arg, changes>>

show_stats ==
    /\ ret' = [op |-> "stats",
               enabled |-> config.enabled,
               filter_words |-> Len(config.filter_words),
               replacement_count |-> Len(replacements),
               emoticons |-> emoticon_regex # <<>>,
               special |-> config.filter_special_chars]
    /\ last' = "show_stats"
    /\ UNCHANGED <<config, emoticon_regex, special_regex, repeat_regex,
                   replacements, arg, changes>>

Next ==
    \/ set_config
    \/ reload_config
    \/ filter_call
    \/ skip_call
    \/ filter_for_tts_only
    \/ test_filter
    \/ show_stats

Spec == Init /\ [][Next]_vars

---------------------------------------------------------------------------
(* filter_text as a function of its inputs: a plugin constructed with one of *)
(* FilterConfigs is handed one of FilterTexts.                               *)

FilterAlphabet == {"a", " ", "6", "star"}

FilterTexts == SeqsUpTo(FilterAlphabet, MaxLen) \cup Texts

FilterConfigs ==
    { [get_default_config EXCEPT
         !.max_processing_length = cap,
         !.emoticon_patterns = ps,
         !.filter_special_chars = sp,
         !.special_char_patterns = sps,
         !.filter_words = ws] :
        cap \in {10000, 2},
        ps \in {EMOTICON_PATTERNS, Append(EMOTICON_PATTERNS, InvalidPattern)},
        sp \in BOOLEAN,
        sps \in {SPECIAL_CHAR_PATTERNS, <<InvalidPattern>> \o SPECIAL_CHAR_PATTERNS},
        ws \in {FILTER_WORDS, <<>>} }

InitFilter ==
    /\ config \in FilterConfigs
    /\ Holds(compile_patterns(config))
    /\ arg \in FilterTexts
    /\ ret = [op |-> "init"]
    /\ last = "init"
    /\ changes = 0

NextFilter == filter_call

SpecFilter == InitFilter /\ [][NextFilter]_vars

---------------------------------------------------------------------------
(* should_skip_tts as a function of its inputs. *)

GateAlphabet == {"a", " ", "NL"}

GateLengths == {0, 1, 2, 200}

InitGate ==
    /\ config \in {[get_default_config EXCEPT !.max_length = n] : n \in GateLengths}
    /\ Holds(compile_patterns(config))
    /\ arg \in SeqsUpTo(GateAlphabet, MaxLen)
    /\ ret = [op |-> "init"]
    /\ last = "init"
    /\ changes = 0

NextGate == skip_call

SpecGate == InitGate /\ [][NextGate]_vars

---------------------------------------------------------------------------
(* The repeat pass on runs: the plugin was constructed with max_repeat_count *)
(* compiled, the host may have edited max_repeat_count to current since, and *)
(* the text is one run of a character between optional neighbours.           *)

RunChars == {"a", "w", " ", "NL"}

Affixes == {<<>>, <<"b">>}

RunText(pre, c, k, post) == pre \o Copies(c, k) \o post

RunTexts ==
    { RunText(x, c, k, x) : x \in Affixes, c \in RunChars, k \in 1..MaxRun }

InitRepeat ==
    /\ \E on \in BOOLEAN, compiled \in 1..MaxCount, current \in 1..MaxCount :
         LET cfg == [get_default_config EXCEPT !.filter_repeats = on,
                                               !.max_repeat_count = compiled]
         IN  /\ Holds(compile_patterns(cfg))
             /\ config = [cfg EXCEPT !.max_repeat_count = current]
    /\ arg \in RunTexts
    /\ ret = [op |-> "init"]
    /\ last = "init"
    /\ changes = 0

NextRepeat == filter_call

SpecRepeat == InitRepeat /\ [][NextRepeat]_vars

---------------------------------------------------------------------------
(* The claims. *)

Valid(p) == p.ok

DropInvalid(cfg) ==
    [cfg EXCEPT !.emoticon_patterns = SelectSeq(@, Valid),
                !.special_char_patterns = SelectSeq(@, Valid)]

\* C1: a reload while the configuration holds an invalid pattern drops only
\* that entry: the rule set afterwards is the one the valid entries compile
\* to, and filter returns what it returns under that rule set.
C1_ReloadDropsOnlyInvalidEntry ==
    (last = "reload_config" /\ compile_fails(config)) =>
        /\ rules = compile_patterns(DropInvalid(config))
        /\ filter_text(arg)
             = filter_run(config, compile_patterns(DropInvalid(config)), arg).out

\* C2: reload reports failure whenever the configuration is malformed so
\* that compilation could not complete, and success only when the rule set
\* was rebuilt from the configuration.
C2_ReloadReportsOutcome ==
    last = "reload_config" =>
        /\ compile_fails(config) => ret.reply = "failed"
        /\ ret.reply = "ok" => ~compile_fails(config)

\* C3: a filter call uses a repeat matcher and a repeat count that come from
\* the same compilation: the count it substitutes with is the count its
\* matcher was compiled with.
C3_OneRuleSetVersionPerCall ==
    (last = "filter_text" /\ ret.matcher.some) => ret.count = ret.matcher.min

AllWhite(s) == \A i \in 1..Len(s) : s[i] \in Whitespace

\* What is left of filter_text when no compiled rule exists: the guard, the
\* removal of the configured filter words and the whitespace clean-up.
ConfigOnlyPasses(cfg, text) ==
    IF text = <<>> \/ Len(text) > cfg.max_processing_length THEN <<>>
    ELSE strip(collapse_spaces(RemoveWords(cfg.filter_words, 1, text)))

\* C4 as stated: after a failed compilation the rule set is empty and filter
\* is a no-op, every input within the processing-length cap coming back as
\* it went in.
C4_FallbackIsNoOp ==
    /\ compile_fails(config) => rules = EmptyRules
    /\ (last = "filter_text" /\ compile_fails(config)
          /\ Len(arg) <= config.max_processing_length) => ret.out = arg

\* C4 as amended: after a failed compilation the rule set is empty, and
\* filter applies no emoticon, replacement, special-character or repeat pass
\* but still removes the configured filter words and cleans up whitespace;
\* an empty or over-long input yields the empty text.
C4_FallbackKeepsConfigPasses ==
    /\ compile_fails(config) => rules = EmptyRules
    /\ (last = "filter_text" /\ compile_fails(config)) =>
           ret.out = ConfigOnlyPasses(config, arg)

C4_Witness ==
    /\ last = "filter_text"
    /\ compile_fails(config)
    /\ rules = EmptyRules
    /\ ret.out # arg
    /\ ret.out # <<>>

\* C5: filter_for_tts_only never modifies the original message: on every
\* path the result's chain after the handler is the chain before it.
C5_OriginalMessageUntouched ==
    last = "filter_for_tts_only" => ret.after = ret.before

\* C6: a filter call changes neither the configuration nor the compiled rule
\* set, and two filter calls with the same input under the same compiled
\* rule set, with no reload between them, return the same output.
C6_FilterIsAFunctionOfRuleSet ==
    [][ last' = "filter_text" =>
          /\ config' = config
          /\ rules' = rules
          /\ (ret.op = "filter" /\ ret.text = ret'.text) => ret'.out = ret.out
      ]_vars

\* C7: with the default configuration, whose replacements hold 233 -> ha ha
\* ha and 666 -> li hai, filter("233666") returns "ha ha ha li hai".
C7_DefaultReplacementExample ==
    (/\ last = "filter_text"
     /\ config = get_default_config
     /\ rules = compile_patterns(get_default_config)
     /\ arg = <<"2", "3", "3", "6", "6", "6">>)
    => ret.out = <<"ha", "ha", "ha", "li", "hai">>

\* The run of a text of RunTexts: its neighbour in front, its first position,
\* its character, its length and what follows it.
RunPre(t) == IF Len(t) > 1 /\ t[1] = "b" THEN <<"b">> ELSE <<>>

RunStart(t) == Len(RunPre(t)) + 1

RunChar(t) == t[RunStart(t)]

RunCount(t) == RunLen(t, RunStart(t))

RunPost(t) == SubSeq(t, RunStart(t) + RunCount(t), Len(t))

\* out holds a maximal run of exactly n copies of c from position i.
HasRunAt(out, i, c, n) ==
    /\ Len(out) >= i + n - 1
    /\ \A j \in i..(i + n - 1) : out[j] = c
    /\ (i + n <= Len(out) => out[i + n] # c)

\* C8 as stated, taken where the matcher was compiled with the current
\* max_repeat_count: for every character c, a maximal run of k >
\* max_repeat_count copies of c yields exactly max_repeat_count copies at
\* that position, and a run of max_repeat_count or fewer is left unchanged.
C8_EveryRunCollapses ==
    (/\ last = "filter_text"
     /\ config.filter_repeats
     /\ repeat_regex.some
     /\ repeat_regex.min = config.max_repeat_count)
    => IF RunCount(arg) > config.max_repeat_count
       THEN HasRunAt(ret.out, RunStart(arg), RunChar(arg),
                     config.max_repeat_count)
       ELSE HasRunAt(ret.out, RunStart(arg), RunChar(arg), RunCount(arg))

\* The characters of RunChars that are not whitespace (and that no emoticon,
\* filter-word, replacement or special-character rule of the default
\* configuration matches).
PlainRunChars == {"a", "w"}

\* C8 as amended: with a repeat matcher compiled, a maximal run of k copies
\* of a plain character between plain neighbours comes out as exactly
\* max_repeat_count (as configured now) copies when k exceeds the count the
\* matcher was compiled with, and unchanged otherwise, for k up to MaxRun.
C8_PlainRunsCollapse ==
    (last = "filter_text" /\ repeat_regex.some /\ RunChar(arg) \in PlainRunChars)
    => ret.out = IF RunCount(arg) > repeat_regex.min
                 THEN RunText(RunPre(arg), RunChar(arg),
                              config.max_repeat_count, RunPost(arg))
                 ELSE arg

C8_Witness ==
    /\ last = "filter_text"
    /\ repeat_regex.some
    /\ arg = RunText(<<"b">>, "a", MaxRun, <<"b">>)
    /\ Len(ret.out) = config.max_repeat_count + 2

\* C9: should_skip is true exactly when the text is empty after trimming
\* whitespace, or max_length > 0 and the text is longer than max_length;
\* with max_length = 0 only emptiness counts.
C9_GateDecision ==
    last = "should_skip_tts" =>
        /\ ret.skip <=> \/ AllWhite(arg)
                        \/ (config.max_length > 0 /\ Len(arg) > config.max_length)
        /\ config.max_length = 0 => (ret.skip <=> AllWhite(arg))

C9_Witness ==
    /\ last = "should_skip_tts"
    /\ ret.skip
    /\ ~AllWhite(arg)
    /\ config.max_length > 0

\* C10: for an input that is empty or longer than max_processing_length,
\* filter returns the empty text without applying any pass, whatever rule
\* set is in effect.
C10_GuardReturnsEmpty ==
    (last = "filter_text"
       /\ (arg = <<>> \/ Len(arg) > config.max_processing_length))
    => (ret.out = <<>> /\ ret.passes = 0)

C10_Witness ==
    /\ last = "filter_text"
    /\ Len(arg) > config.max_processing_length
    /\ rules # EmptyRules
    /\ ret.out = <<>>
    /\ ret.passes = 0

=============================================================================
